---- MODULE Spec2Model ----
(***************************************************************************)
(* A model of sortpy: the catalog (sortpy/database.py, class Database, an  *)
(* sqlite3 connection with the tables files and duplicates) and the tree   *)
(* walk with its per-file inspection (sortpy/index.py).                    *)
(*                                                                         *)
(* Python values are modelled as follows.  An Optional is a sequence of    *)
(* length 0 (None) or 1.  A str whose characters matter is a sequence of   *)
(* one-character strings.  An SQL value is NULL (the empty sequence) or a  *)
(* one-element sequence holding the text.  An exception is the name of its *)
(* class, "" meaning that the call returned normally.                      *)
(***************************************************************************)
EXTENDS Integers, Sequences, FiniteSets, TLC

\* ------------------------------------------------------------------ bounds

\* The catalog specification stops inserting once the connection sees this
\* many rows in the files table.
MaxRows == 3

\* The storage engine fails at most this many times in a run.
MaxFaults == 1

\* The folders walked hold at most this many entries.
MaxEntries == 3

\* The files inspected alone hold at most this many blocks, and a byte.
MaxBlocks == 2

\* ------------------------------------------------------------- python values

None == <<>>

Some(x) == <<x>>

\* datetime.datetime: the fields isoformat() prints.
Datetime(y, mo, d, h, mi, s, us) ==
    [year |-> y, month |-> mo, day |-> d, hour |-> h, minute |-> mi,
     second |-> s, microsecond |-> us]

DigitChar == <<"0", "1", "2", "3", "4", "5", "6", "7", "8", "9">>

\* str.zfill of a natural number: its last w decimal digits, zero padded.
RECURSIVE ZeroPad(_, _)
ZeroPad(n, w) ==
    IF w = 0 THEN <<>>
    ELSE Append(ZeroPad(n \div 10, w - 1), DigitChar[(n % 10) + 1])

\* datetime.isoformat(): 'YYYY-MM-DDTHH:MM:SS', followed by '.ffffff' only
\* when the microsecond is not zero.
isoformat(dt) ==
    ZeroPad(dt.year, 4) \o <<"-">> \o ZeroPad(dt.month, 2) \o <<"-">>
      \o ZeroPad(dt.day, 2) \o <<"T">> \o ZeroPad(dt.hour, 2) \o <<":">>
      \o ZeroPad(dt.minute, 2) \o <<":">> \o ZeroPad(dt.second, 2)
      \o (IF dt.microsecond = 0 THEN <<>>
          ELSE <<".">> \o ZeroPad(dt.microsecond, 6))

\* pathlib.Path: an object wrapping the path text; str(path) gives the text.
Path(text) == [class |-> "Path", text |-> text]

PathStr(path) == path.text

\* An instance of the dataclass FileInfo of sortpy/database.py.
FileInfo(filename, path, sha256, created, modified, type) ==
    [class |-> "database.FileInfo", filename |-> filename, path |-> path,
     sha256 |-> sha256, created_timestamp |-> created,
     modified_timestamp |-> modified, type |-> type]

\* A slip: the test is made on the name of the class, which the FileInfo of
\* sortpy/file_info.py shares.
IsFileInfo_ByClassName(x) ==
    x.class \in {"database.FileInfo", "file_info.FileInfo"}

\* isinstance(x, FileInfo) inside sortpy/database.py: the class of that
\* module only.  sortpy/file_info.py defines another class of the same name
\* and fields, which is not an instance of it, and neither is a dict.
IsFileInfo(x) == x.class = "database.FileInfo"

\* ------------------------------------------------------------ SQL rows

SqlNull == <<>>

SqlText(s) == <<s>>

\* The parameter tuple of INSERT INTO files.
FilesRow(id, file_info) ==
    [id |-> id,
     filename |-> file_info.filename,
     path |-> PathStr(file_info.path),
     sha256 |-> file_info.sha256,
     created_timestamp |->
        IF file_info.created_timestamp # None
        THEN SqlText(isoformat(file_info.created_timestamp[1])) ELSE SqlNull,
     modified_timestamp |->
        IF file_info.modified_timestamp # None
        THEN SqlText(isoformat(file_info.modified_timestamp[1])) ELSE SqlNull,
     type |-> file_info.type]

\* The parameter tuple of INSERT INTO duplicates.
DuplicatesRow(id, file_info) ==
    [id |-> id,
     sha256 |-> file_info.sha256,
     filename |-> file_info.filename,
     path |-> PathStr(file_info.path),
     created_timestamp |->
        IF file_info.created_timestamp # None
        THEN SqlText(isoformat(file_info.created_timestamp[1])) ELSE SqlNull,
     modified_timestamp |->
        IF file_info.modified_timestamp # None
        THEN SqlText(isoformat(file_info.modified_timestamp[1])) ELSE SqlNull]

\* id INTEGER PRIMARY KEY: sqlite assigns the largest id of the table plus
\* one; no row is ever deleted, so that is the number of rows plus one.
NextId(rows) == Len(rows) + 1

\* cursor.fetchone() on a result set: its first row, or None.
fetchone(result) == IF result = <<>> THEN None ELSE Some(Head(result))

MatchesSha(row, sha256) == row.sha256 = sha256

MatchesFilename(row, filename) == row.filename = filename

\* SELECT ... FROM <rows> WHERE sha256 = ?
RECURSIVE SelectBySha(_, _)
SelectBySha(rows, sha256) ==
    IF rows = <<>> THEN <<>>
    ELSE (IF MatchesSha(Head(rows), sha256) THEN <<Head(rows)>> ELSE <<>>)
           \o SelectBySha(Tail(rows), sha256)

\* SELECT 1 FROM files WHERE filename = ?
RECURSIVE SelectByFilename(_, _)
SelectByFilename(rows, filename) ==
    IF rows = <<>> THEN <<>>
    ELSE (IF MatchesFilename(Head(rows), filename) THEN <<Head(rows)>> ELSE <<>>)
           \o SelectByFilename(Tail(rows), filename)

\* ------------------------------------------------------- sortpy/index.py

\* What a function gives: the exception raised ("" for none) and the value
\* returned.
Result(raised, value) == [raised |-> raised, value |-> value]

IsDigit(c) == c \in {"0", "1", "2", "3", "4", "5", "6", "7", "8", "9"}

UpperCase == <<"A", "B", "C", "D", "E", "F", "G", "H", "I", "J", "K", "L", "M",
               "N", "O", "P", "Q", "R", "S", "T", "U", "V", "W", "X", "Y", "Z">>

LowerCase == <<"a", "b", "c", "d", "e", "f", "g", "h", "i", "j", "k", "l", "m",
               "n", "o", "p", "q", "r", "s", "t", "u", "v", "w", "x", "y", "z">>

\* str.lower(), character by character.
LowerChar(c) ==
    IF \E i \in 1 .. 26 : UpperCase[i] = c
    THEN LowerCase[CHOOSE i \in 1 .. 26 : UpperCase[i] = c]
    ELSE c

lower(str) == [i \in 1 .. Len(str) |-> LowerChar(str[i])]

\* int() of a string of decimal digits.
RECURSIVE int(_)
int(digits) ==
    IF digits = <<>> THEN 0
    ELSE 10 * int(SubSeq(digits, 1, Len(digits) - 1))
           + (CHOOSE v \in 0 .. 9 : DigitChar[v + 1] = digits[Len(digits)])

PICTURE_EXTENSIONS ==
    {<<".", "j", "p", "g">>, <<".", "j", "p", "e", "g">>, <<".", "p", "n", "g">>,
     <<".", "g", "i", "f">>, <<".", "b", "m", "p">>, <<".", "t", "i", "f", "f">>}

VIDEO_EXTENSIONS ==
    {<<".", "m", "p", "4">>, <<".", "m", "o", "v">>, <<".", "a", "v", "i">>,
     <<".", "m", "k", "v">>, <<".", "f", "l", "v">>, <<".", "w", "m", "v">>}

\* A regular expression of TIMESTAMP_REGEX: the alternatives of its leading
\* group (the empty string when it has none), then a sequence of tokens that
\* each match one character ("\\d": a digit, ".": anything but a newline,
\* another character: itself), and the place of each named group among them.
\* The optional tail (_\d)* of the third expression matches or not without
\* changing whether the expression matches or what its groups are.
Digits(n) == [i \in 1 .. n |-> "\\d"]

DateTimeGroups(sep) ==
    [year |-> <<1, 4>>, month |-> <<5 + sep, 6 + sep>>,
     day |-> <<7 + 2 * sep, 8 + 2 * sep>>,
     hour |-> <<10 + 2 * sep, 11 + 2 * sep>>,
     minute |-> <<12 + 3 * sep, 13 + 3 * sep>>,
     second |-> <<14 + 4 * sep, 15 + 4 * sep>>]

TIMESTAMP_REGEX ==
    << [prefixes |-> << <<>> >>,
        tokens |-> Digits(4) \o <<"-">> \o Digits(2) \o <<"-">> \o Digits(2)
                     \o <<" ">> \o Digits(2) \o <<".">> \o Digits(2)
                     \o <<".">> \o Digits(2),
        groups |-> DateTimeGroups(1)],
       [prefixes |-> << <<>> >>,
        tokens |-> Digits(4) \o Digits(2) \o Digits(2) \o <<"_">>
                     \o Digits(2) \o Digits(2) \o Digits(2),
        groups |-> DateTimeGroups(0)],
       [prefixes |-> << <<"I", "M", "G", "_">>, <<"v", "i", "d", "e", "o", "_">>,
                        <<"M", "V", "I", "M", "G", "_">>, <<"V", "I", "D", "_">> >>,
        tokens |-> Digits(4) \o Digits(2) \o Digits(2) \o <<"_">>
                     \o Digits(2) \o Digits(2) \o Digits(2),
        groups |-> DateTimeGroups(0)] >>

TokenMatches(token, c) ==
    IF token = "\\d" THEN IsDigit(c)
    ELSE IF token = "." THEN c # "\n"
    ELSE c = token

\* Whether the characters of str from position at on match the tokens.
TokensMatchAt(tokens, str, at) ==
    /\ Len(str) >= at - 1 + Len(tokens)
    /\ \A i \in 1 .. Len(tokens) : TokenMatches(tokens[i], str[at - 1 + i])

\* A slip: re.search, the pattern is tried at every place of the string,
\* from the left.
re_match_Search(pattern, str) ==
    LET fits(at, k) ==
            /\ Len(str) >= at + Len(pattern.prefixes[k])
            /\ SubSeq(str, at + 1, at + Len(pattern.prefixes[k]))
                  = pattern.prefixes[k]
            /\ TokensMatchAt(pattern.tokens, str,
                             at + Len(pattern.prefixes[k]) + 1)
        places == {at \in 0 .. Len(str) :
                     \E k \in 1 .. Len(pattern.prefixes) : fits(at, k)}
    IN  IF places = {} THEN None
        ELSE LET at == CHOOSE a \in places : \A b \in places : a <= b
                 ks == {k \in 1 .. Len(pattern.prefixes) : fits(at, k)}
                 k == CHOOSE k \in ks : \A m \in ks : k <= m
                 off == at + Len(pattern.prefixes[k])
                 group(name) == SubSeq(str, off + pattern.groups[name][1],
                                       off + pattern.groups[name][2])
             IN  Some([name \in DOMAIN pattern.groups |-> group(name)])

\* re.match(pattern, str): the pattern is tried at the start of the string
\* only, its alternatives in order.  None, or the text of each named group.
re_match(pattern, str) ==
    LET fits(k) ==
            /\ Len(str) >= Len(pattern.prefixes[k])
            /\ SubSeq(str, 1, Len(pattern.prefixes[k])) = pattern.prefixes[k]
            /\ TokensMatchAt(pattern.tokens, str, Len(pattern.prefixes[k]) + 1)
        ks == {k \in 1 .. Len(pattern.prefixes) : fits(k)}
    IN  IF ks = {} THEN None
        ELSE LET k == CHOOSE k \in ks : \A m \in ks : k <= m
                 off == Len(pattern.prefixes[k])
                 group(name) == SubSeq(str, off + pattern.groups[name][1],
                                       off + pattern.groups[name][2])
             IN  Some([name \in DOMAIN pattern.groups |-> group(name)])

IsLeapYear(y) == (y % 4 = 0 /\ y % 100 # 0) \/ y % 400 = 0

DaysInMonth(y, m) ==
    IF m = 2 THEN (IF IsLeapYear(y) THEN 29 ELSE 28)
    ELSE IF m \in {4, 6, 9, 11} THEN 30 ELSE 31

\* datetime(year, month, day, hour, minute, second): ValueError when the
\* numbers are no date and time of day.
datetime(y, mo, d, h, mi, s) ==
    IF /\ y \in 1 .. 9999 /\ mo \in 1 .. 12 /\ d \in 1 .. DaysInMonth(y, mo)
       /\ h \in 0 .. 23 /\ mi \in 0 .. 59 /\ s \in 0 .. 59
    THEN Result("", Datetime(y, mo, d, h, mi, s, 0))
    ELSE Result("ValueError", None)

\* datetime.fromtimestamp of a time of the first day of the epoch, in a
\* process whose time zone is UTC.
fromtimestamp(t) ==
    Datetime(1970, 1, 1, t \div 3600, (t \div 60) % 60, t % 60, 0)

TimestampDict(dt) ==
    [year |-> dt.year, month |-> dt.month, day |-> dt.day, hour |-> dt.hour,
     minute |-> dt.minute, second |-> dt.second]

\* Path.suffix of a file name: from its last dot on, unless that dot is the
\* first or the last character.
suffix(name) ==
    LET dots == {i \in 1 .. Len(name) : name[i] = "."} IN
    IF dots = {} THEN <<>>
    ELSE LET i == CHOOSE i \in dots : \A j \in dots : j <= i IN
         IF 1 < i /\ i < Len(name) THEN SubSeq(name, i, Len(name)) ELSE <<>>

\* A slip: the extension is looked up as it is written.
FileType_CaseSensitive(extension) ==
    IF extension \in PICTURE_EXTENSIONS THEN "picture"
    ELSE IF extension \in VIDEO_EXTENSIONS THEN "video"
    ELSE "unknown"

\* 'Determine file type' of get_file_info.
FileType(extension) ==
    IF lower(extension) \in PICTURE_EXTENSIONS THEN "picture"
    ELSE IF lower(extension) \in VIDEO_EXTENSIONS THEN "video"
    ELSE "unknown"

\* A slip: a match whose numbers are no date is passed over, and the
\* timestamp stays as it was.
RECURSIVE ScanTimestamps_SkippingInvalid(_, _, _)
ScanTimestamps_SkippingInvalid(patterns, filename, acc) ==
    IF patterns = <<>> THEN Result("", acc)
    ELSE LET match == re_match(Head(patterns), filename) IN
         IF match = None
         THEN ScanTimestamps_SkippingInvalid(Tail(patterns), filename, acc)
         ELSE LET g == match[1]
                  made == datetime(int(g.year), int(g.month), int(g.day),
                                   int(g.hour), int(g.minute), int(g.second))
              IN  IF made.raised # ""
                  THEN ScanTimestamps_SkippingInvalid(Tail(patterns), filename,
                                                      acc)
                  ELSE ScanTimestamps_SkippingInvalid(Tail(patterns), filename,
                         [filename_timestamp |-> Some(made.value),
                          has_timestamp_dict |-> TRUE])

\* A slip: an expression that does not match clears what an earlier one
\* set, so that the last expression alone decides.
RECURSIVE ScanTimestamps_LastRuleDecides(_, _, _)
ScanTimestamps_LastRuleDecides(patterns, filename, acc) ==
    IF patterns = <<>> THEN Result("", acc)
    ELSE LET match == re_match(Head(patterns), filename) IN
         IF match = None
         THEN ScanTimestamps_LastRuleDecides(Tail(patterns), filename,
                [filename_timestamp |-> None, has_timestamp_dict |-> FALSE])
         ELSE LET g == match[1]
                  made == datetime(int(g.year), int(g.month), int(g.day),
                                   int(g.hour), int(g.minute), int(g.second))
              IN  IF made.raised # "" THEN Result(made.raised, None)
                  ELSE ScanTimestamps_LastRuleDecides(Tail(patterns), filename,
                         [filename_timestamp |-> Some(made.value),
                          has_timestamp_dict |-> TRUE])

\* 'Check for timestamp in filename' of get_file_info: every expression is
\* tried, in order, and each match overwrites what an earlier one set; the
\* datetime of a match may raise.  acc holds filename_timestamp and whether
\* filename_timestamp_dict was set.
RECURSIVE ScanTimestamps(_, _, _)
ScanTimestamps(patterns, filename, acc) ==
    IF patterns = <<>> THEN Result("", acc)
    ELSE LET match == re_match(Head(patterns), filename) IN
         IF match = None
         THEN ScanTimestamps(Tail(patterns), filename, acc)
         ELSE LET g == match[1]
                  made == datetime(int(g.year), int(g.month), int(g.day),
                                   int(g.hour), int(g.minute), int(g.second))
              IN  IF made.raised # "" THEN Result(made.raised, None)
                  ELSE ScanTimestamps(Tail(patterns), filename,
                         [filename_timestamp |-> Some(made.value),
                          has_timestamp_dict |-> TRUE])

\* f.read(4096) until it gives b'': the blocks of the content.
BlockSize == 4096

\* A slip: f.read(4096) is called once.
ReadBlocks_FirstBlockOnly(content) ==
    IF content = <<>> THEN <<>>
    ELSE IF Len(content) <= BlockSize THEN <<content>>
    ELSE <<SubSeq(content, 1, BlockSize)>>

RECURSIVE ReadBlocks(_)
ReadBlocks(content) ==
    IF content = <<>> THEN <<>>
    ELSE IF Len(content) <= BlockSize THEN <<content>>
    ELSE <<SubSeq(content, 1, BlockSize)>>
           \o ReadBlocks(SubSeq(content, BlockSize + 1, Len(content)))

\* hashlib.sha256(): update() appends to what was hashed so far, and
\* hexdigest() is a function of all of it that tells any two contents of
\* the model apart.
RECURSIVE Sha256Update(_, _)
Sha256Update(hashed, blocks) ==
    IF blocks = <<>> THEN hashed
    ELSE Sha256Update(hashed \o Head(blocks), Tail(blocks))

hexdigest(hashed) == <<"sha256", hashed>>

\* get_file_info: stat, type, timestamp in the file name, hash of the
\* content.  Opening a file the process may not read raises.
get_file_info(file) ==
    LET filename == file.name
        extension == suffix(file.name)
        scanned == ScanTimestamps(TIMESTAMP_REGEX, filename,
                     [filename_timestamp |-> None, has_timestamp_dict |-> FALSE])
    IN  IF scanned.raised # "" THEN Result(scanned.raised, None)
        ELSE IF ~file.readable THEN Result("PermissionError", None)
        ELSE Result("",
               [filename |-> filename,
                extension |-> extension,
                created_timestamp |-> fromtimestamp(file.st_ctime),
                created_timestamp_dict |->
                    TimestampDict(fromtimestamp(file.st_ctime)),
                modified_timestamp |-> fromtimestamp(file.st_mtime),
                modified_timestamp_dict |->
                    TimestampDict(fromtimestamp(file.st_mtime)),
                type |-> FileType(extension),
                filename_timestamp |-> scanned.value.filename_timestamp,
                has_filename_timestamp_dict |-> scanned.value.has_timestamp_dict,
                sha256 |-> hexdigest(Sha256Update(<<>>, ReadBlocks(file.content)))])

\* The loop of index_folder over folder_path.rglob('*'): an exception of
\* get_file_info leaves the loop and the function.
RECURSIVE IndexEntries(_, _)
IndexEntries(entries, indexed_files) ==
    IF entries = <<>> THEN Result("", indexed_files)
    ELSE IF Head(entries).kind = "file"
         THEN LET info == get_file_info(Head(entries)) IN
              IF info.raised # "" THEN Result(info.raised, None)
              ELSE IndexEntries(Tail(entries), Append(indexed_files, info.value))
         ELSE IndexEntries(Tail(entries), indexed_files)

\* A slip: the root is walked without being looked at first.
index_folder_Unchecked(root) ==
    IndexEntries(root.entries, <<>>)

\* index_folder.
index_folder(root) ==
    IF ~root.exists \/ ~root.is_dir THEN Result("ValueError", None)
    ELSE IndexEntries(root.entries, <<>>)

\* ------------------------------------------------------------ the state

VARIABLES
    conn,        \* "open" | "closed": Database._conn and Database._cursor
    tables,      \* the tables the database file holds (committed schema)
    files,       \* the committed rows of the table files, in id order
    duplicates,  \* the committed rows of the table duplicates, in id order
    txn,         \* the connection's open transaction: what it has written
                 \* and not yet committed
    last,        \* the last call on the Database object and its outcome
    inserted,    \* history: the records whose insert_file_info returned
    failed,      \* history: some insert_file_info call has raised
    nfaults,     \* history: how often the storage engine has failed
    root,        \* the folder given to index_folder, with what is under it
    walk,        \* the call of index_folder: not made yet, or its outcome
    crec,        \* concurrent inserts: the record each connection inserts
    cpc,         \* concurrent inserts: the statement each connection is at
    ctxn,        \* concurrent inserts: each connection's open transaction
    lock,        \* the connection holding the write lock of the database
                 \* file, 0 when it is free
    inspect      \* the call of get_file_info on one file: not made yet, or
                 \* its outcome

dbvars == <<conn, txn, last, inserted, failed, nfaults>>

filevars == <<tables, files, duplicates>>

walkvars == <<root, walk>>

concvars == <<crec, cpc, ctxn, lock>>

inspvars == <<inspect>>

vars == <<dbvars, filevars, walkvars, concvars, inspvars>>

NoTxn == [tables |-> {}, files |-> <<>>, duplicates |-> <<>>]

\* The Database object with the database file behind it.
Self == [conn |-> conn, tables |-> tables, files |-> files,
         duplicates |-> duplicates, txn |-> txn]

\* What a statement run on the connection reads: the committed state with
\* the connection's own uncommitted writes.
ViewTables(self) == self.tables \cup self.txn.tables

ViewFiles(self) == self.files \o self.txn.files

ViewDuplicates(self) == self.duplicates \o self.txn.duplicates

TxnOpen(self) == self.txn # NoTxn

\* connection.commit(): the open transaction becomes the committed state.
commit(self) ==
    [self EXCEPT !.tables = ViewTables(self),
                 !.files = ViewFiles(self),
                 !.duplicates = ViewDuplicates(self),
                 !.txn = NoTxn]

\* --------------------------------------------------- class Database

\* What a call on the Database object gives: the object afterwards, the
\* exception raised ("" for none) and the value returned.
Outcome(self, raised, result) ==
    [self |-> self, raised |-> raised, result |-> result]

\* The statement at which the storage engine fails during a call (disk full,
\* I/O error, database locked by another process): 0 for none, otherwise the
\* 1-based position of the failing cursor.execute / connection.commit.  The
\* failing statement alone is undone: the transaction it ran in stays open
\* with what the earlier statements wrote, as after 'no such table'.
InsertFaults == 0 .. 4

InitializeFaults == 0 .. 3

\* Database.close.  sqlite3 rolls an open transaction back when its
\* connection is closed.  A second close calls None.close().
close(self) ==
    IF self.conn = "closed" THEN Outcome(self, "AttributeError", None)
    ELSE Outcome([self EXCEPT !.conn = "closed", !.txn = NoTxn], "", None)

\* A slip: the table is dropped and created again, as DROP TABLE IF EXISTS
\* followed by CREATE TABLE does.
CreateTable_Recreating(self, name) ==
    IF name = "files"
    THEN [self EXCEPT !.tables = @ \cup {name}, !.files = <<>>,
                      !.txn.files = <<>>]
    ELSE [self EXCEPT !.tables = @ \cup {name}, !.duplicates = <<>>,
                      !.txn.duplicates = <<>>]

\* CREATE TABLE IF NOT EXISTS <name>: nothing when the table is there.  The
\* statement runs inside the connection's transaction when one is open and
\* commits by itself otherwise.
CreateTableIfNotExists(self, name) ==
    IF name \in ViewTables(self) THEN self
    ELSE IF TxnOpen(self)
         THEN [self EXCEPT !.txn.tables = @ \cup {name}]
         ELSE [self EXCEPT !.tables = @ \cup {name}]

\* Database.initialize_database.
initialize_database(self, fault) ==
    IF self.conn = "closed" THEN Outcome(self, "ConnectionError", None)
    ELSE IF fault = 1 THEN Outcome(self, "OperationalError", None)
    ELSE LET s1 == CreateTableIfNotExists(self, "files") IN
         IF fault = 2 THEN Outcome(s1, "OperationalError", None)
         ELSE LET s2 == CreateTableIfNotExists(s1, "duplicates") IN
              IF fault = 3 THEN Outcome(s2, "OperationalError", None)
              ELSE Outcome(commit(s2), "", None)

\* A slip: INSERT OR REPLACE on the path, the row of a path indexed before
\* is replaced by the new one.
ExecInsertFiles_ReplacingPath(self, file_info) ==
    LET other(rows) ==
            SelectSeq(rows, LAMBDA r : r.path # PathStr(file_info.path))
    IN  [self EXCEPT !.files = other(@),
                     !.txn.files =
                        Append(other(@),
                               FilesRow(NextId(ViewFiles(self)), file_info))]

\* A slip: a record whose fingerprint the table already holds gets no row of
\* its own in files.
ExecInsertFiles_SkippingKnownHash(self, file_info) ==
    IF SelectBySha(ViewFiles(self), file_info.sha256) # <<>> THEN self
    ELSE [self EXCEPT !.txn.files =
            Append(@, FilesRow(NextId(ViewFiles(self)), file_info))]

\* cursor.execute('INSERT INTO files ...'): the row joins the connection's
\* transaction (sqlite3 opens one before an INSERT).
ExecInsertFiles(self, file_info) ==
    [self EXCEPT !.txn.files =
        Append(@, FilesRow(NextId(ViewFiles(self)), file_info))]

\* A slip: the duplicates row is filed under the file name instead of the
\* fingerprint.
ExecInsertDuplicates_KeyedByName(self, file_info) ==
    [self EXCEPT !.txn.duplicates =
        Append(@, [DuplicatesRow(NextId(ViewDuplicates(self)), file_info)
                     EXCEPT !.sha256 = file_info.filename])]

\* cursor.execute('INSERT INTO duplicates ...').
ExecInsertDuplicates(self, file_info) ==
    [self EXCEPT !.txn.duplicates =
        Append(@, DuplicatesRow(NextId(ViewDuplicates(self)), file_info))]

\* A slip: the test is made on the result of the INSERT, which has no rows.
HashAlreadyExists_NeverFound(self, file_info) == fetchone(<<>>) # None

\* 'SELECT id FROM files WHERE sha256 = ?' followed by the test of
\* cursor.fetchone(); it runs after the INSERT INTO files of the same call.
HashAlreadyExists(self, file_info) ==
    fetchone(SelectBySha(ViewFiles(self), file_info.sha256)) # None

\* Database.insert_file_info.  Nothing rolls back when a statement raises:
\* what the call wrote so far stays in the connection's open transaction.
insert_file_info(self, file_info, fault) ==
    IF ~IsFileInfo(file_info) THEN Outcome(self, "TypeError", None)
    ELSE IF self.conn = "closed" THEN Outcome(self, "AttributeError", None)
    ELSE IF "files" \notin ViewTables(self) \/ fault = 1
         THEN Outcome(self, "OperationalError", None)
    ELSE LET s1 == ExecInsertFiles(self, file_info) IN
         IF fault = 2 THEN Outcome(s1, "OperationalError", None)
         ELSE LET dup == HashAlreadyExists(s1, file_info) IN
              IF dup /\ ("duplicates" \notin ViewTables(s1) \/ fault = 3)
              THEN Outcome(s1, "OperationalError", None)
              ELSE LET s2 == IF dup THEN ExecInsertDuplicates(s1, file_info)
                                    ELSE s1 IN
                   IF fault = 4 THEN Outcome(s2, "OperationalError", None)
                   ELSE Outcome(commit(s2), "", None)

\* Database.file_exists_by_filename.
file_exists_by_filename(self, filename) ==
    IF self.conn = "closed" THEN Outcome(self, "AttributeError", None)
    ELSE IF "files" \notin ViewTables(self)
         THEN Outcome(self, "OperationalError", None)
    ELSE Outcome(self, "",
                 fetchone(SelectByFilename(ViewFiles(self), filename)) # None)

\* Database.file_exists_by_hash.
file_exists_by_hash(self, sha256) ==
    IF self.conn = "closed" THEN Outcome(self, "AttributeError", None)
    ELSE IF "files" \notin ViewTables(self)
         THEN Outcome(self, "OperationalError", None)
    ELSE Outcome(self, "",
                 fetchone(SelectBySha(ViewFiles(self), sha256)) # None)

\* The dict get_files_by_hash builds from one row of duplicates.
DuplicateDict(row) ==
    [filename |-> row.filename, path |-> row.path,
     created_timestamp |-> row.created_timestamp,
     modified_timestamp |-> row.modified_timestamp]

\* A slip: the list is returned whether or not it is empty.
RowsToResult_AlwaysList(rows) ==
    Some([i \in 1 .. Len(rows) |-> DuplicateDict(rows[i])])

\* 'if rows: return [...]' and 'return None' of get_files_by_hash.
RowsToResult(rows) ==
    IF rows # <<>>
    THEN Some([i \in 1 .. Len(rows) |-> DuplicateDict(rows[i])])
    ELSE None

\* Database.get_files_by_hash.
get_files_by_hash(self, sha256) ==
    IF self.conn = "closed" THEN Outcome(self, "AttributeError", None)
    ELSE IF "duplicates" \notin ViewTables(self)
         THEN Outcome(self, "OperationalError", None)
    ELSE Outcome(self, "",
                 RowsToResult(SelectBySha(ViewDuplicates(self), sha256)))

\* ------------------------------------------------------------ the inputs

DT1 == Datetime(2021, 10, 12, 12, 30, 45, 0)

DT2 == Datetime(2019, 8, 30, 21, 42, 59, 123456)

\* A, B and C have the same content, D another one; A and C have the same
\* file name in different folders.
RecA == FileInfo("a.jpg", Path("/src/a.jpg"), "h1", Some(DT1), Some(DT1), "picture")

RecB == FileInfo("b.jpg", Path("/src/b.jpg"), "h1", None, Some(DT2), "picture")

RecC == FileInfo("a.jpg", Path("/src/sub/a.jpg"), "h1", Some(DT2), None, "picture")

RecD == FileInfo("d.mp4", Path("/src/d.mp4"), "h2", Some(DT1), Some(DT2), "video")

Records == {RecA, RecB, RecC, RecD}

\* What a caller can pass that is no database.FileInfo: an instance of the
\* FileInfo of sortpy/file_info.py, and a dict as index_folder returns them.
OtherFileInfo == [RecA EXCEPT !.class = "file_info.FileInfo"]

InfoDict == [class |-> "dict", filename |-> "a.jpg", sha256 |-> "h1"]

Arguments == Records \cup {OtherFileInfo, InfoDict}

Hashes == {"h1", "h3"}

Filenames == {"a.jpg", "x.png"}

\* ------------------------------------------------------------ the actions

\* One call on the Database object: the object and the file behind it become
\* what the call left, and the call is recorded.  fault is the statement at
\* which the storage engine was made to fail (0: none).
Call(op, arg, fault, out) ==
    /\ fault # 0 => nfaults < MaxFaults
    /\ conn' = out.self.conn
    /\ tables' = out.self.tables
    /\ files' = out.self.files
    /\ duplicates' = out.self.duplicates
    /\ txn' = out.self.txn
    /\ last' = [op |-> op, arg |-> arg, raised |-> out.raised,
                result |-> out.result]
    /\ inserted' = IF op = "insert_file_info" /\ out.raised = ""
                   THEN Append(inserted, arg) ELSE inserted
    /\ failed' = (failed \/ (op = "insert_file_info" /\ out.raised # ""))
    /\ nfaults' = IF fault # 0 THEN nfaults + 1 ELSE nfaults
    /\ UNCHANGED <<walkvars, concvars, inspvars>>

Close == Call("close", None, 0, close(Self))

InitializeDatabase ==
    \E fault \in InitializeFaults :
        Call("initialize_database", None, fault,
             initialize_database(Self, fault))

InsertFileInfo ==
    /\ Len(ViewFiles(Self)) < MaxRows
    /\ \E file_info \in Arguments, fault \in InsertFaults :
          Call("insert_file_info", file_info, fault,
               insert_file_info(Self, file_info, fault))

FileExistsByFilename ==
    \E filename \in Filenames :
        Call("file_exists_by_filename", filename, 0,
             file_exists_by_filename(Self, filename))

FileExistsByHash ==
    \E sha256 \in Hashes :
        Call("file_exists_by_hash", sha256, 0,
             file_exists_by_hash(Self, sha256))

GetFilesByHash ==
    \E sha256 \in Hashes :
        Call("get_files_by_hash", sha256, 0, get_files_by_hash(Self, sha256))

\* Database.__init__ on a path where no database file exists yet.
Fresh ==
    [conn |-> "open", tables |-> {}, files |-> <<>>, duplicates |-> <<>>,
     txn |-> NoTxn]

InitDatabase ==
    /\ conn = Fresh.conn
    /\ tables = Fresh.tables
    /\ files = Fresh.files
    /\ duplicates = Fresh.duplicates
    /\ txn = Fresh.txn
    /\ last = [op |-> "__init__", arg |-> None, raised |-> "", result |-> None]
    /\ inserted = <<>>
    /\ failed = FALSE
    /\ nfaults = 0

Procs == {1, 2}

NoFolder == [exists |-> FALSE, is_dir |-> FALSE, entries |-> <<>>]

NoWalk == [pc |-> "idle", raised |-> "", value |-> None]

\* get_file_info is not called.
NoInspect == [pc |-> "off", file |-> None, raised |-> "", value |-> None]

\* index_folder and get_file_info are not called and no second connection is
\* open.
Idle ==
    /\ root = NoFolder
    /\ walk = NoWalk
    /\ crec = [p \in Procs |-> RecA]
    /\ cpc = [p \in Procs |-> "idle"]
    /\ ctxn = [p \in Procs |-> NoTxn]
    /\ lock = 0
    /\ inspect = NoInspect

Init == InitDatabase /\ Idle

Next ==
    \/ Close
    \/ InitializeDatabase
    \/ InsertFileInfo
    \/ FileExistsByFilename
    \/ FileExistsByHash
    \/ GetFilesByHash

\* The catalog: any sequence of calls on one Database object.
Spec == Init /\ [][Next]_vars

\* ------------------------------------------------------------ the walk

NameImg ==
    <<"I", "M", "G", "_", "2", "0", "1", "9", "0", "8", "3", "0", "_",
      "2", "1", "4", "2", "5", "9", ".", "j", "p", "g">>

NameNotes == <<"n", "o", "t", "e", "s", ".", "t", "x", "t">>

NamePhoto == <<"p", "h", "o", "t", "o", ".", "J", "P", "G">>

\* Month 13.
NameBadDate ==
    <<"2", "0", "2", "1", "1", "3", "1", "2", "_", "1", "2", "3", "0", "4", "5",
      ".", "j", "p", "g">>

NameSub == <<"s", "u", "b">>

File(name, readable, content, ctime, mtime) ==
    [kind |-> "file", name |-> name, readable |-> readable,
     content |-> content, st_ctime |-> ctime, st_mtime |-> mtime]

Dir(name) == [kind |-> "dir", name |-> name]

\* What rglob('*') can yield: two files that can be inspected, one that
\* cannot be read, one whose name holds an invalid date, and a folder.
Entries ==
    {File(NameImg, TRUE, <<1, 2>>, 10, 3700),
     File(NameNotes, TRUE, <<3>>, 59, 60),
     File(NamePhoto, FALSE, <<1, 2>>, 0, 0),
     File(NameBadDate, TRUE, <<4>>, 5, 5),
     Dir(NameSub)}

Listings == UNION {[1 .. n -> Entries] : n \in 0 .. MaxEntries}

Folders ==
    {[exists |-> TRUE, is_dir |-> TRUE, entries |-> l] : l \in Listings}
      \cup {NoFolder, [exists |-> TRUE, is_dir |-> FALSE, entries |-> <<>>]}

IndexFolder ==
    /\ walk.pc = "idle"
    /\ LET out == index_folder(root) IN
       walk' = [pc |-> "done", raised |-> out.raised, value |-> out.value]
    /\ UNCHANGED <<root, dbvars, filevars, concvars, inspvars>>

InitWalk ==
    /\ InitDatabase
    /\ root \in Folders
    /\ walk = NoWalk
    /\ crec = [p \in Procs |-> RecA]
    /\ cpc = [p \in Procs |-> "idle"]
    /\ ctxn = [p \in Procs |-> NoTxn]
    /\ lock = 0
    /\ inspect = NoInspect

NextWalk == IndexFolder

\* The walk: one call of index_folder on a folder.
SpecWalk == InitWalk /\ [][NextWalk]_vars

\* ------------------------------------------------- concurrent inserts

\* Two Database objects on one database file, each in insert_file_info with
\* its record, a statement at a time.  sqlite lets one connection write at
\* a time: INSERT takes the write lock of the file, commit releases it, and
\* an INSERT that finds the lock taken waits, and raises when the wait
\* times out.

\* The catalog as the calls of the code leave it: initialized and empty, or
\* holding a file of another content.
Initialized == initialize_database(Fresh, 0).self

Catalogs == {Initialized, insert_file_info(Initialized, RecD, 0).self}

SameContent == {RecA, RecB, RecC}

\* The Database object of connection p.
ConnOf(p) ==
    [conn |-> "open", tables |-> tables, files |-> files,
     duplicates |-> duplicates, txn |-> ctxn[p]]

\* Line 86: INSERT INTO files, with the write lock free.
ConcInsertFiles(p) ==
    /\ cpc[p] = "insert_files"
    /\ lock = 0
    /\ lock' = p
    /\ ctxn' = [ctxn EXCEPT ![p] = ExecInsertFiles(ConnOf(p), crec[p]).txn]
    /\ cpc' = [cpc EXCEPT ![p] = "select"]
    /\ UNCHANGED <<crec, filevars, dbvars, walkvars, inspvars>>

\* Line 86: INSERT INTO files, the write lock held by the other connection
\* for longer than the timeout: OperationalError, database is locked.
ConcLocked(p) ==
    /\ cpc[p] = "insert_files"
    /\ lock \notin {0, p}
    /\ cpc' = [cpc EXCEPT ![p] = "raised"]
    /\ UNCHANGED <<crec, ctxn, lock, filevars, dbvars, walkvars, inspvars>>

\* Lines 99-100: SELECT id FROM files and the test of fetchone().
ConcSelect(p) ==
    /\ cpc[p] = "select"
    /\ cpc' = [cpc EXCEPT ![p] =
                 IF HashAlreadyExists(ConnOf(p), crec[p])
                 THEN "insert_duplicates" ELSE "commit"]
    /\ UNCHANGED <<crec, ctxn, lock, filevars, dbvars, walkvars, inspvars>>

\* Line 101: INSERT INTO duplicates.
ConcInsertDuplicates(p) ==
    /\ cpc[p] = "insert_duplicates"
    /\ ctxn' = [ctxn EXCEPT ![p] =
                  ExecInsertDuplicates(ConnOf(p), crec[p]).txn]
    /\ cpc' = [cpc EXCEPT ![p] = "commit"]
    /\ UNCHANGED <<crec, lock, filevars, dbvars, walkvars, inspvars>>

\* Line 111: commit.
ConcCommit(p) ==
    /\ cpc[p] = "commit"
    /\ LET after == commit(ConnOf(p)) IN
       /\ tables' = after.tables
       /\ files' = after.files
       /\ duplicates' = after.duplicates
       /\ ctxn' = [ctxn EXCEPT ![p] = after.txn]
    /\ lock' = 0
    /\ cpc' = [cpc EXCEPT ![p] = "done"]
    /\ UNCHANGED <<crec, dbvars, walkvars, inspvars>>

InitConc ==
    /\ \E catalog \in Catalogs :
          /\ tables = catalog.tables
          /\ files = catalog.files
          /\ duplicates = catalog.duplicates
    /\ conn = "open"
    /\ txn = NoTxn
    /\ last = [op |-> "__init__", arg |-> None, raised |-> "", result |-> None]
    /\ inserted = <<>>
    /\ failed = FALSE
    /\ nfaults = 0
    /\ root = NoFolder
    /\ walk = NoWalk
    /\ crec \in {c \in [Procs -> SameContent] :
                   \A p, q \in Procs : c[p] = c[q] => p = q}
    /\ cpc = [p \in Procs |-> "insert_files"]
    /\ ctxn = [p \in Procs |-> NoTxn]
    /\ lock = 0
    /\ inspect = NoInspect

NextConc ==
    \E p \in Procs :
        \/ ConcInsertFiles(p)
        \/ ConcLocked(p)
        \/ ConcSelect(p)
        \/ ConcInsertDuplicates(p)
        \/ ConcCommit(p)

\* Two concurrent calls of insert_file_info.
SpecConc == InitConc /\ [][NextConc]_vars

\* ------------------------------------------------- one file inspected

\* The file names get_file_info is called with: what may stand before the
\* digits, the digits with what separates them, and what follows.
NamePrefixes ==
    {<<>>,
     <<"I", "M", "G", "_">>,
     <<"v", "i", "d", "e", "o", "_">>,
     <<"M", "V", "I", "M", "G", "_">>,
     <<"V", "I", "D", "_">>,
     <<"v", "i", "d", "_">>,
     <<"x">>}

\* Dates and times of day that exist and that do not (a month 13 and 00, a
\* day 30 and 29 of February and 00, a year 0000, an hour 24, a minute and a
\* second 60), written as the expressions want them and otherwise.
NameStamps ==
    {<<"2", "0", "1", "9", "0", "8", "3", "0", "_", "2", "1", "4", "2", "5", "9">>,
     <<"2", "0", "1", "9", "-", "0", "8", "-", "3", "0", " ", "2", "1", ".", "4", "2", ".", "5", "9">>,
     <<"2", "0", "2", "0", "0", "2", "2", "9", "_", "0", "0", "0", "0", "0", "0">>,
     <<"2", "0", "2", "0", "-", "0", "2", "-", "2", "9", " ", "0", "0", ".", "0", "0", ".", "0", "0">>,
     <<"2", "0", "2", "1", "1", "3", "1", "2", "_", "1", "2", "3", "0", "4", "5">>,
     <<"2", "0", "2", "1", "-", "1", "3", "-", "1", "2", " ", "1", "2", ".", "3", "0", ".", "4", "5">>,
     <<"2", "0", "2", "1", "0", "2", "3", "0", "_", "1", "2", "3", "0", "4", "5">>,
     <<"2", "0", "2", "1", "-", "0", "2", "-", "3", "0", " ", "1", "2", ".", "3", "0", ".", "4", "5">>,
     <<"2", "0", "1", "9", "0", "2", "2", "9", "_", "1", "2", "3", "0", "4", "5">>,
     <<"2", "0", "1", "9", "-", "0", "2", "-", "2", "9", " ", "1", "2", ".", "3", "0", ".", "4", "5">>,
     <<"0", "0", "0", "0", "0", "1", "0", "1", "_", "1", "2", "3", "0", "4", "5">>,
     <<"0", "0", "0", "0", "-", "0", "1", "-", "0", "1", " ", "1", "2", ".", "3", "0", ".", "4", "5">>,
     <<"2", "0", "2", "1", "1", "0", "1", "2", "_", "2", "4", "0", "0", "0", "0">>,
     <<"2", "0", "2", "1", "-", "1", "0", "-", "1", "2", " ", "2", "4", ".", "0", "0", ".", "0", "0">>,
     <<"2", "0", "2", "1", "1", "0", "1", "2", "_", "1", "2", "6", "0", "0", "0">>,
     <<"2", "0", "2", "1", "-", "1", "0", "-", "1", "2", " ", "1", "2", ".", "6", "0", ".", "0", "0">>,
     <<"2", "0", "2", "1", "1", "0", "1", "2", "_", "1", "2", "3", "0", "6", "0">>,
     <<"2", "0", "2", "1", "-", "1", "0", "-", "1", "2", " ", "1", "2", ".", "3", "0", ".", "6", "0">>,
     <<"2", "0", "2", "1", "0", "0", "1", "2", "_", "1", "2", "3", "0", "4", "5">>,
     <<"2", "0", "2", "1", "-", "0", "0", "-", "1", "2", " ", "1", "2", ".", "3", "0", ".", "4", "5">>,
     <<"2", "0", "2", "1", "1", "0", "0", "0", "_", "1", "2", "3", "0", "4", "5">>,
     <<"2", "0", "2", "1", "-", "1", "0", "-", "0", "0", " ", "1", "2", ".", "3", "0", ".", "4", "5">>,
     <<"2", "0", "1", "9", "-", "0", "8", "-", "3", "0", " ", "2", "1", ":", "4", "2", ":", "5", "9">>,
     <<"2", "0", "1", "9", "-", "0", "8", "-", "3", "0", "_", "2", "1", ".", "4", "2", ".", "5", "9">>,
     <<"2", "0", "1", "9", "0", "8", "3", "0", "_", "2", "1", "4", "2">>,
     <<"2", "0", "1", "9", "0", "8", "3", "0", "-", "2", "1", "4", "2", "5", "9">>,
     <<"2", "0", "2", "1", "-", "1", "3", "-", "1", "2", " ", "1", "2", ":", "3", "0", ":", "4", "5">>,
     <<>>}

NameTails ==
    {<<".", "j", "p", "g">>,
     <<"_", "1", ".", "j", "p", "g">>,
     <<".", "M", "K", "V">>,
     <<".", "J", "P", "G">>,
     <<".", "t", "x", "t">>,
     <<>>}

OtherNames ==
    {<<"p", "h", "o", "t", "o", ".", "J", "P", "G">>,
     <<"p", "h", "o", "t", "o", ".", "j", "p", "g">>,
     <<"c", "l", "i", "p", ".", "M", "K", "V">>,
     <<"c", "l", "i", "p", ".", "m", "k", "v">>,
     <<"n", "o", "t", "e", "s", ".", "t", "x", "t">>,
     <<".", "j", "p", "g">>,
     <<"a", ".">>,
     <<"a", "r", "c", "h", "i", "v", "e", ".", "t", "a", "r", ".", "g", "z">>,
     <<"a", ".", "J", "p", "e", "g">>,
     <<"A", ".", "J", "P", "E", "G">>,
     <<"m", "o", "v", "i", "e", ".", "M", "p", "4">>,
     <<"j", "p", "g">>,
     <<"x", ".", "P", "N", "G">>,
     <<"x", ".", "p", "n", "g">>}

Names ==
    {p \o t \o e : p \in NamePrefixes, t \in NameStamps, e \in NameTails}
      \cup OtherNames

\* A content of n bytes.
Content(n) == [i \in 1 .. n |-> (i * i) % 251]

\* The sizes of the contents: around each multiple of the block size.
Sizes ==
    {n \in {k * BlockSize + d : k \in 0 .. MaxBlocks, d \in {-1, 0, 1}} : n >= 0}

\* A content of two bytes, the same for some of the names.
ShortContent(name) ==
    <<Len(name), Cardinality({i \in 1 .. Len(name) : IsDigit(name[i])})>>

\* The files: every name with a short content, and a few names with
\* contents of every size, readable or not, with different times.
InspectFiles ==
    {File(n, TRUE, ShortContent(n), 10, 3700) : n \in Names}
      \cup {File(n, r, Content(size), t, 60) :
               n \in {NamePhoto, NameImg, NameBadDate}, r \in BOOLEAN,
               size \in Sizes, t \in {0, 59}}

Inspect ==
    /\ inspect.pc = "idle"
    /\ LET out == get_file_info(inspect.file[1]) IN
       inspect' = [inspect EXCEPT !.pc = "done", !.raised = out.raised,
                                  !.value = out.value]
    /\ UNCHANGED <<dbvars, filevars, walkvars, concvars>>

InitInspect ==
    /\ InitDatabase
    /\ root = NoFolder
    /\ walk = NoWalk
    /\ crec = [p \in Procs |-> RecA]
    /\ cpc = [p \in Procs |-> "idle"]
    /\ ctxn = [p \in Procs |-> NoTxn]
    /\ lock = 0
    /\ \E file \in InspectFiles :
          inspect = [pc |-> "idle", file |-> Some(file), raised |-> "",
                     value |-> None]

NextInspect == Inspect

\* The inspection: one call of get_file_info on a file.
SpecInspect == InitInspect /\ [][NextInspect]_vars

\* ------------------------------------------------------------ the claims

\* The tables as the connection reads them.
VFiles == ViewFiles(Self)

VDuplicates == ViewDuplicates(Self)

IsPrefix(s, t) == Len(s) <= Len(t) /\ SubSeq(t, 1, Len(s)) = s

\* A step in which a call of insert_file_info returned normally.
InsertReturned == inserted' # inserted

Shas == {r.sha256 : r \in Records} \cup Hashes

RowsWithSha(rows, sha256) == {i \in 1 .. Len(rows) : rows[i].sha256 = sha256}

\* C1: insert_file_info appends a row to duplicates if and only if a files
\* row with the same sha256 existed before the call; the first insert of a
\* fingerprint adds no duplicates row.
C1_DuplicateIffSeenBefore ==
    [][InsertReturned =>
         LET seen == RowsWithSha(VFiles, last'.arg.sha256) # {} IN
         /\ seen => Len(VDuplicates') = Len(VDuplicates) + 1
         /\ ~seen => VDuplicates' = VDuplicates]_vars

\* C2, as stated: the files table never holds two rows with the same sha256.
C2_PrimaryHoldsFirstOnly ==
    \A i, j \in 1 .. Len(files) : files[i].sha256 = files[j].sha256 => i = j

\* The records are rows of the table, in order: recs[1] is some row, recs[2]
\* a later one, and so on (ids apart).
RECURSIVE AreRowsInOrder(_, _)
AreRowsInOrder(recs, rows) ==
    IF recs = <<>> THEN TRUE
    ELSE IF rows = <<>> THEN FALSE
    ELSE LET r == Head(rows) rec == Head(recs) IN
         IF /\ r.filename = rec.filename
            /\ r.path = rec.path.text
            /\ r.sha256 = rec.sha256
         THEN AreRowsInOrder(Tail(recs), Tail(rows))
         ELSE AreRowsInOrder(recs, Tail(rows))

\* C2, amended: every inserted record has its own row in the files table, in
\* insertion order, also when an earlier record has the same sha256 (so the
\* files table does hold several rows with one sha256), and every record
\* inserted after one with the same sha256 has a row in duplicates.
C2_EveryRecordPrimaryLaterOnesDuplicate ==
    /\ AreRowsInOrder(inserted, files)
    /\ \A i \in 1 .. Len(inserted) :
          (\E j \in 1 .. i - 1 : inserted[j].sha256 = inserted[i].sha256)
          => \E k \in 1 .. Len(duplicates) :
                /\ duplicates[k].sha256 = inserted[i].sha256
                /\ duplicates[k].path = inserted[i].path.text
                /\ duplicates[k].filename = inserted[i].filename

\* A, B and C, of one content, were inserted in that order.
C2_Witness ==
    /\ inserted = <<RecA, RecB, RecC>>
    /\ Len(files) = 3

\* C3: every insert_file_info call that returns adds exactly one row to the
\* files table, after the rows that were there, carrying the record's
\* filename, path, sha256, timestamps and type.
C3_InsertAppendsOneFilesRow ==
    [][InsertReturned =>
         LET rec == last'.arg
             row == VFiles'[Len(VFiles')] IN
         /\ Len(VFiles') = Len(VFiles) + 1
         /\ IsPrefix(VFiles, VFiles')
         /\ files' = VFiles'
         /\ row.filename = rec.filename
         /\ row.path = rec.path.text
         /\ row.sha256 = rec.sha256
         /\ row.type = rec.type
         /\ row.created_timestamp =
              (IF rec.created_timestamp = None THEN SqlNull
               ELSE SqlText(isoformat(rec.created_timestamp[1])))
         /\ row.modified_timestamp =
              (IF rec.modified_timestamp = None THEN SqlNull
               ELSE SqlText(isoformat(rec.modified_timestamp[1])))]_vars

\* The third record of one content has just been inserted.
C3_Witness ==
    /\ last.op = "insert_file_info" /\ last.raised = ""
    /\ Len(inserted) = 3 /\ Len(VFiles) = 3
    /\ \A i \in 1 .. 3 : inserted[i].sha256 = "h1"

DistinctPaths(recs) ==
    \A i, j \in 1 .. Len(recs) : recs[i].path = recs[j].path => i = j

\* The path of the first-inserted files row with the fingerprint, if any.
FirstPrimaryPath(sha256) ==
    LET hits == RowsWithSha(VFiles, sha256) IN
    IF hits = {} THEN {}
    ELSE {VFiles[CHOOSE i \in hits : \A j \in hits : i <= j].path}

\* C4: after successful inserts of records with pairwise distinct paths, for
\* every fingerprint the paths of the records inserted with it are the path
\* of the first files row with it together with the paths of the duplicates
\* rows with it.
C4_FilesOfFingerprintRecoverable ==
    (~failed /\ DistinctPaths(inserted)) =>
        \A f \in Shas :
            {inserted[i].path.text : i \in RowsWithSha(inserted, f)}
              = FirstPrimaryPath(f)
                  \cup {VDuplicates[k].path : k \in RowsWithSha(VDuplicates, f)}

\* Three files of one content at three paths.
C4_Witness ==
    /\ ~failed /\ DistinctPaths(inserted)
    /\ Cardinality(RowsWithSha(inserted, "h1")) = 3

\* C7: insert_file_info is transactional: the committed tables hold the
\* rows of the calls that returned, and no row of a call that raised, also
\* not after the commit of a later call.
C7_FailedInsertLeavesNothing ==
    /\ Len(files) = Len(inserted)
    /\ \A i \in 1 .. Len(files) : files[i] = FilesRow(i, inserted[i])
    /\ \A k \in 1 .. Len(duplicates) :
          \E i \in 1 .. Len(inserted) :
              duplicates[k] = DuplicatesRow(k, inserted[i])

\* C8: initialize_database on an open connection does not raise (unless the
\* storage engine fails under it) and leaves every row of files and
\* duplicates as it was; existing tables are kept, absent ones created.
C8_InitializeKeepsRows ==
    [][(last'.op = "initialize_database" /\ conn = "open") =>
         /\ nfaults' = nfaults =>
               (last'.raised = "" /\ ViewTables(Self)' = {"files", "duplicates"})
         /\ VFiles' = VFiles
         /\ VDuplicates' = VDuplicates
         /\ IsPrefix(files, files')
         /\ IsPrefix(duplicates, duplicates')
         /\ ViewTables(Self) \subseteq ViewTables(Self)']_vars

\* initialize_database was called again on a catalog that holds rows.
C8_Witness ==
    /\ last.op = "initialize_database" /\ last.raised = ""
    /\ Len(files) = 2 /\ Len(duplicates) = 2

\* C9: get_files_by_hash(h) returns None exactly when duplicates has no row
\* with sha256 h, and otherwise a list with one element per such row, in
\* order; it never returns an empty list.
C9_NoneIffNoDuplicateRows ==
    (last.op = "get_files_by_hash" /\ last.raised = "") =>
        LET hits == RowsWithSha(VDuplicates, last.arg) IN
        /\ last.result = None <=> hits = {}
        /\ last.result # Some(<<>>)
        /\ hits # {} =>
              /\ Len(last.result[1]) = Cardinality(hits)
              /\ \A n \in 1 .. Len(last.result[1]) :
                    \E k \in hits :
                        /\ Cardinality({m \in hits : m <= k}) = n
                        /\ last.result[1][n].path = VDuplicates[k].path
                        /\ last.result[1][n].filename = VDuplicates[k].filename

\* get_files_by_hash returned a list of two, among rows of another hash.
C9_Witness ==
    /\ last.op = "get_files_by_hash" /\ last.raised = ""
    /\ last.result # None /\ Len(last.result[1]) = 2
    /\ Len(VDuplicates) = 3

\* The storage errors: ConnectionError, as initialize_database raises it, and
\* the errors of sqlite3.
StorageErrors == {"ConnectionError", "OperationalError"}

\* C10: after close(), every catalog operation (given a well-formed record)
\* fails with a storage error, and the committed tables stay as they were.
C10_ClosedCatalogRaisesStorageError ==
    [][(conn = "closed" /\ conn' = "closed" /\ last'.op # "close"
          /\ (last'.op = "insert_file_info" => IsFileInfo(last'.arg))) =>
         /\ last'.raised \in StorageErrors
         /\ files' = files /\ duplicates' = duplicates
         /\ tables' = tables]_vars

\* The records the concurrent calls inserted are these rows of the table.
ConcRowsOf(rows, p) ==
    {k \in 1 .. Len(rows) :
        rows[k].sha256 = crec[p].sha256 /\ rows[k].path = crec[p].path.text}

ConcAllDone == \A p \in Procs : cpc[p] = "done"

\* C5, as stated: when two inserts of records with one new fingerprint have
\* run concurrently, exactly one of the records is in the files table and
\* the other one is in duplicates.
C5_OnePrimaryOneDuplicate ==
    ConcAllDone =>
        \E p, q \in Procs :
            /\ p # q
            /\ ConcRowsOf(files, p) # {}
            /\ ConcRowsOf(files, q) = {}
            /\ ConcRowsOf(duplicates, q) # {}

\* C5, amended: when both calls have returned, both records are in the
\* files table, once each (so the files table holds two rows of one
\* sha256), and the record whose files row is the later one is in
\* duplicates; no transaction is left open.
C5_BothPrimaryLaterOneDuplicate ==
    ConcAllDone =>
        /\ \A p \in Procs : Cardinality(ConcRowsOf(files, p)) = 1
        /\ \A p, q \in Procs :
              (\E i \in ConcRowsOf(files, p), j \in ConcRowsOf(files, q) : i < j)
              => ConcRowsOf(duplicates, q) # {}
        /\ lock = 0
        /\ \A p \in Procs : ctxn[p] = NoTxn

\* Both calls returned, connection 2 first.
C5_Witness ==
    /\ ConcAllDone
    /\ \A i \in ConcRowsOf(files, 2), j \in ConcRowsOf(files, 1) : i < j
    /\ Len(files) = 3

\* The entries of the folder that are regular files, and those of them
\* whose inspection raises.
RegularFiles == {i \in 1 .. Len(root.entries) : root.entries[i].kind = "file"}

Failing == {i \in RegularFiles : get_file_info(root.entries[i]).raised # ""}

\* C6: index_folder on a folder does not abort when the inspection of some
\* files fails: it returns one record for every other regular file, in
\* order.
C6_WalkIsolatesFailures ==
    (walk.pc = "done" /\ root.exists /\ root.is_dir) =>
        /\ walk.raised = ""
        /\ Len(walk.value) = Cardinality(RegularFiles \ Failing)
        /\ \A i \in RegularFiles \ Failing :
              walk.value[Cardinality({j \in RegularFiles \ Failing : j <= i})]
                = get_file_info(root.entries[i]).value

\* C11: insert_file_info with an argument that is no FileInfo raises
\* TypeError before any statement runs: no row is added to files or to
\* duplicates, committed or not, and the connection is left as it was.
C11_MalformedRecordRaisesTypeError ==
    [][(last'.op = "insert_file_info" /\ last'.arg \notin Records) =>
         /\ last'.raised = "TypeError"
         /\ UNCHANGED <<files, duplicates, tables, txn, conn, inserted>>]_vars

\* A dict was passed to a catalog that holds rows.
C11_Witness ==
    /\ last.op = "insert_file_info" /\ last.arg = InfoDict
    /\ last.raised = "TypeError"
    /\ Len(files) = 2

\* C12: the catalog is append-only: every step keeps the committed rows of
\* files and duplicates as they are, in place, and an insert of a record
\* whose path is in files already adds a row and keeps the earlier one.
C12_AppendOnly ==
    [][/\ IsPrefix(files, files')
       /\ IsPrefix(duplicates, duplicates')
       /\ (InsertReturned
             /\ \E i \in 1 .. Len(VFiles) : VFiles[i].path = last'.arg.path.text)
          => /\ Len(files') > Len(files)
             /\ Cardinality({i \in 1 .. Len(files') :
                               files'[i].path = last'.arg.path.text}) >= 2]_vars

\* The same file was indexed twice.
C12_Witness ==
    /\ inserted = <<RecA, RecA>>
    /\ Len(files) = 2 /\ files[1].path = files[2].path

\* C18: whenever file_exists_by_hash(h) has just returned, it returned true
\* exactly when an insert_file_info call that returned before it carried
\* sha256 h, and file_exists_by_filename(n) likewise for the filename n.
\* (That the lookups write no row is part of C12_AppendOnly's frame.)
C18_LookupsTellSuccessfulInserts ==
    /\ (last.op = "file_exists_by_hash" /\ last.raised = "") =>
          (last.result = TRUE <=>
             \E i \in 1 .. Len(inserted) : inserted[i].sha256 = last.arg)
    /\ (last.op = "file_exists_by_filename" /\ last.raised = "") =>
          (last.result = TRUE <=>
             \E i \in 1 .. Len(inserted) : inserted[i].filename = last.arg)

\* C19: every row of duplicates has the sha256 of some row of files, and
\* duplicates has no more rows than files, in the committed tables and in
\* what the connection reads.
C19_DuplicatesReferToFiles ==
    /\ \A k \in 1 .. Len(duplicates) : RowsWithSha(files, duplicates[k].sha256) # {}
    /\ Len(duplicates) <= Len(files)
    /\ \A k \in 1 .. Len(VDuplicates) :
          RowsWithSha(VFiles, VDuplicates[k].sha256) # {}
    /\ Len(VDuplicates) <= Len(VFiles)

\* Three rows of two fingerprints in each table.
C19_Witness ==
    /\ Len(duplicates) = 3 /\ Len(files) = 3
    /\ {duplicates[k].sha256 : k \in 1 .. 3} = {"h1", "h2"}

\* C13: index_folder on a root that does not exist or is not a directory
\* raises ValueError: it returns no list, whatever the root holds, and the
\* catalog has no row.
C13_BadRootFailsFast ==
    (walk.pc = "done" /\ (~root.exists \/ ~root.is_dir)) =>
        /\ walk.raised = "ValueError"
        /\ walk.value = None
        /\ files = <<>> /\ duplicates = <<>> /\ txn = NoTxn

\* index_folder was called on a path that is a file.
C13_Witness ==
    /\ walk.pc = "done" /\ walk.raised = "ValueError"
    /\ root.exists /\ ~root.is_dir

\* The file get_file_info was called with.
Inspected == inspect.file[1]

\* The expressions of TIMESTAMP_REGEX that match the name, by position.
MatchingRules(name) ==
    {i \in 1 .. Len(TIMESTAMP_REGEX) : re_match(TIMESTAMP_REGEX[i], name) # None}

\* The datetime made of what expression i captured in the name.
RuleDatetime(i, name) ==
    LET g == re_match(TIMESTAMP_REGEX[i], name)[1] IN
    datetime(int(g.year), int(g.month), int(g.day),
             int(g.hour), int(g.minute), int(g.second))

\* C14: when an expression matches the file name and what it captured is no
\* date and time of day, get_file_info raises ValueError and returns no
\* record.
C14_InvalidDateRaises ==
    (inspect.pc = "done"
       /\ \E i \in MatchingRules(Inspected.name) :
             RuleDatetime(i, Inspected.name).raised # "") =>
        /\ inspect.raised = "ValueError"
        /\ inspect.value = None

\* A readable file named after the 30th of February was inspected.
C14_Witness ==
    /\ inspect.pc = "done" /\ inspect.raised = "ValueError"
    /\ Inspected.readable
    /\ MatchingRules(Inspected.name) = {3}
    /\ LET g == re_match(TIMESTAMP_REGEX[3], Inspected.name)[1] IN
       int(g.month) = 2 /\ int(g.day) = 30

\* The last of a non-empty set of positions.
Last(rules) == CHOOSE i \in rules : \A j \in rules : j <= i

\* C15: in the record get_file_info returns, filename_timestamp is the
\* datetime of the last expression of TIMESTAMP_REGEX, in its order, that
\* matches the file name, whichever expressions come after it, and None when
\* none matches.
C15_LastMatchingRuleWins ==
    (inspect.pc = "done" /\ inspect.raised = "") =>
        LET rules == MatchingRules(Inspected.name) IN
        IF rules = {}
        THEN /\ inspect.value.filename_timestamp = None
             /\ ~inspect.value.has_filename_timestamp_dict
        ELSE /\ inspect.value.filename_timestamp =
                    Some(RuleDatetime(Last(rules), Inspected.name).value)
             /\ inspect.value.has_filename_timestamp_dict

\* A name that the first expression matches was inspected: the two
\* expressions tried after it left its datetime in the record.
C15_Witness ==
    /\ inspect.pc = "done" /\ inspect.raised = ""
    /\ MatchingRules(Inspected.name) = {1}
    /\ inspect.value.filename_timestamp = Some(Datetime(2020, 2, 29, 0, 0, 0, 0))

\* hashlib.sha256(content).hexdigest(): the content hashed at once.
HashOfWhole(content) == hexdigest(Sha256Update(<<>>, <<content>>))

\* C16: the sha256 of the record get_file_info returns is the hash of the
\* whole content of the file taken at once, and every file of the same
\* content gets the same sha256, whatever its name and times.
C16_FingerprintOfBytesOnly ==
    (inspect.pc = "done" /\ inspect.raised = "") =>
        /\ inspect.value.sha256 = HashOfWhole(Inspected.content)
        /\ \A other \in InspectFiles :
              (other.content = Inspected.content
                 /\ get_file_info(other).raised = "") =>
                  get_file_info(other).value.sha256 = inspect.value.sha256

\* A file of two blocks and a byte was inspected, and a file of another
\* name and other times holds the same bytes.
C16_Witness ==
    /\ inspect.pc = "done" /\ inspect.raised = ""
    /\ Len(Inspected.content) = 2 * BlockSize + 1
    /\ Len(ReadBlocks(Inspected.content)) = 3
    /\ \E other \in InspectFiles :
          /\ other.content = Inspected.content
          /\ other.name # Inspected.name
          /\ other.st_ctime # Inspected.st_ctime
          /\ get_file_info(other).raised = ""

NameClip == <<"c", "l", "i", "p", ".", "M", "K", "V">>

\* The two names differ in the case of letters at most.
SameButCase(a, b) ==
    /\ Len(a) = Len(b)
    /\ \A i \in 1 .. Len(a) : a[i] = b[i] \/ LowerChar(a[i]) = LowerChar(b[i])

\* C17: the type of the record get_file_info returns is 'picture' exactly
\* when the lower-cased extension of the name is in the picture set, 'video'
\* exactly when it is in the video set, and 'unknown' otherwise; the sets
\* share no extension; two names that differ in letter case only get the
\* same type; photo.JPG is a picture, clip.MKV a video, notes.txt unknown.
C17_TypeByLowerCasedExtension ==
    /\ PICTURE_EXTENSIONS \cap VIDEO_EXTENSIONS = {}
    /\ (inspect.pc = "done" /\ inspect.raised = "") =>
          LET type == inspect.value.type
              ext == lower(suffix(Inspected.name))
          IN  /\ type \in {"picture", "video", "unknown"}
              /\ type = "picture" <=> ext \in PICTURE_EXTENSIONS
              /\ type = "video" <=> ext \in VIDEO_EXTENSIONS
              /\ Inspected.name = NamePhoto => type = "picture"
              /\ Inspected.name = NameClip => type = "video"
              /\ Inspected.name = NameNotes => type = "unknown"
              /\ \A other \in InspectFiles :
                    (SameButCase(other.name, Inspected.name)
                       /\ get_file_info(other).raised = "") =>
                        get_file_info(other).value.type = type

\* clip.MKV was inspected, and so can clip.mkv be.
C17_Witness ==
    /\ inspect.pc = "done" /\ inspect.raised = ""
    /\ Inspected.name = NameClip
    /\ inspect.value.type = "video"
    /\ \E other \in InspectFiles :
          other.name # NameClip /\ SameButCase(other.name, NameClip)

\* The first of a non-empty set of positions.
First(rules) == CHOOSE i \in rules : \A j \in rules : i <= j

\* What an evaluation that stops at the first matching expression gives.
FirstMatchWins(name) ==
    LET rules == MatchingRules(name) IN
    IF rules = {} THEN Result("", None)
    ELSE LET made == RuleDatetime(First(rules), name) IN
         IF made.raised # "" THEN Result(made.raised, None)
         ELSE Result("", Some(made.value))

\* C20: no file name is matched by more than one expression of
\* TIMESTAMP_REGEX, and get_file_info gives the filename_timestamp, or the
\* ValueError, that stopping at the first match would give.
C20_RulesExclusive ==
    inspect.pc # "off" =>
        /\ Cardinality(MatchingRules(Inspected.name)) <= 1
        /\ (inspect.pc = "done" /\ inspect.raised = "") =>
              /\ FirstMatchWins(Inspected.name).raised = ""
              /\ inspect.value.filename_timestamp
                   = FirstMatchWins(Inspected.name).value
        /\ (inspect.pc = "done" /\ inspect.raised = "ValueError") =>
              FirstMatchWins(Inspected.name).raised = "ValueError"

\* IMG_20190830_214259.jpg was inspected: the third expression matches it,
\* and the second would from its fifth character on.
C20_Witness ==
    /\ inspect.pc = "done" /\ inspect.raised = ""
    /\ Inspected.name = NameImg
    /\ MatchingRules(Inspected.name) = {3}
    /\ TokensMatchAt(TIMESTAMP_REGEX[2].tokens, Inspected.name, 5)
    /\ inspect.value.filename_timestamp
         = Some(Datetime(2019, 8, 30, 21, 42, 59, 0))

====
